---- MODULE Spec2Model ----
(***************************************************************************)
(* Model of contrib/testgen/gen_key_io_test_vectors.py: the template-driven*)
(* generator of valid and invalid address / private key test vectors, its  *)
(* validity oracle is_valid, the two infinite streams gen_valid_vectors    *)
(* and gen_invalid_vectors, and the command-line driver.                   *)
(*                                                                         *)
(* Strings are sequences of ASCII codes, byte strings are sequences of     *)
(* 0..255.  The process-wide random source of the `random` module is a     *)
(* deterministic generator state `rng`: every draw advances it.            *)
(***************************************************************************)
EXTENDS Integers, Sequences, FiniteSets, TLC

(***************************************************************************)
(* Bounds of the model.                                                    *)
(***************************************************************************)
\* seeds tried besides the script's own: 0..MaxSeed
MaxSeed == 1
\* largest count given on the command line
MaxCount == 16
\* elements pulled from each stream when two streams are consumed together
MaxPull == 4

(***************************************************************************)
(* Sequencing.  Python evaluates an assignment once and then uses the      *)
(* value; Let(e, Body) is Body applied to the value of e, with e evaluated *)
(* exactly once.                                                           *)
(***************************************************************************)
Let(e, Body(_)) == CHOOSE y \in {Body(x) : x \in {e}} : TRUE

(***************************************************************************)
(* Characters and strings.                                                 *)
(***************************************************************************)
IsLowerCh(c) == c >= 97 /\ c <= 122
IsUpperCh(c) == c >= 65 /\ c <= 90
LowerCh(c) == IF IsUpperCh(c) THEN c + 32 ELSE c
UpperCh(c) == IF IsLowerCh(c) THEN c - 32 ELSE c
SwapCh(c) == IF IsUpperCh(c) THEN c + 32 ELSE IF IsLowerCh(c) THEN c - 32 ELSE c
\* str.lower(), str.upper(), str.swapcase()
lower(s) == [i \in 1..Len(s) |-> LowerCh(s[i])]
upper(s) == [i \in 1..Len(s) |-> UpperCh(s[i])]
swapcase(s) == [i \in 1..Len(s) |-> SwapCh(s[i])]
\* s[a:b] of Python, 0-based, end exclusive, clipped to the string
Slice(s, a, b) ==
    LET lo == IF a < 0 THEN 0 ELSE a
        hi == IF b > Len(s) THEN Len(s) ELSE b
    IN  IF hi <= lo THEN <<>> ELSE SubSeq(s, lo + 1, hi)
\* s[a:] of Python
SliceFrom(s, a) == Slice(s, a, Len(s))

\* "0123456789abcdef"
HexDigits == <<48, 49, 50, 51, 52, 53, 54, 55, 56, 57, 97, 98, 99, 100, 101, 102>>
\* bytes.hex()
hex(bs) == [i \in 1..(2 * Len(bs)) |->
              IF i % 2 = 1 THEN HexDigits[(bs[(i + 1) \div 2] \div 16) + 1]
                           ELSE HexDigits[(bs[i \div 2] % 16) + 1]]
\* value of one hexadecimal character, -1 when it is none
HexVal(c) ==
    IF c >= 48 /\ c <= 57 THEN c - 48
    ELSE IF c >= 97 /\ c <= 102 THEN c - 87
    ELSE IF c >= 65 /\ c <= 70 THEN c - 55
    ELSE -1
IsHexStr(s) == Len(s) % 2 = 0 /\ \A i \in 1..Len(s) : HexVal(s[i]) >= 0
\* bytes.fromhex() of a string of hexadecimal characters
fromhex(s) == [i \in 1..(Len(s) \div 2) |-> 16 * HexVal(s[2 * i - 1]) + HexVal(s[2 * i])]

\* the literals of the script
StrEmpty == <<>>
\* "x"
StrX == <<120>>
\* "prv"
StrPrv == <<112, 114, 118>>
\* "a914", "87", "76a914", "88ac"
StrA914 == <<97, 57, 49, 52>>
Str87 == <<56, 55>>
Str76A914 == <<55, 54, 97, 57, 49, 52>>
Str88AC == <<56, 56, 97, 99>>
\* "ric", "tric", "rric", "tc", "bt"
HrpRic == <<114, 105, 99>>
HrpTric == <<116, 114, 105, 99>>
HrpRric == <<114, 114, 105, 99>>
HrpTc == <<116, 99>>
HrpBt == <<98, 116>>

(***************************************************************************)
(* Script opcodes (test_framework.script).                                 *)
(***************************************************************************)
OP_0 == 0
OP_1 == 81
OP_2 == 82
OP_3 == 83
OP_16 == 96
OP_DUP == 118
OP_EQUAL == 135
OP_EQUALVERIFY == 136
OP_HASH160 == 169
OP_CHECKSIG == 172

pubkey_prefix == <<OP_DUP, OP_HASH160, 20>>
pubkey_suffix == <<OP_EQUALVERIFY, OP_CHECKSIG>>
script_prefix == <<OP_HASH160, 20>>
script_suffix == <<OP_EQUAL>>
p2wpkh_prefix == <<OP_0, 20>>
p2wsh_prefix == <<OP_0, 32>>
p2tr_prefix == <<OP_1, 32>>

(***************************************************************************)
(* The random source.  The generator of the `random` module is modelled    *)
(* as a full-period linear congruential generator on RngMod states; each   *)
(* library call consumes exactly one state.  Every operator takes the      *)
(* state g before the call and returns [v |-> value, g |-> state after].   *)
(***************************************************************************)
RngMod == 65536
RngMul == 25173
RngInc == 13849
RngNext(g) == (RngMul * g + RngInc) % RngMod
\* random.seed(a)
RngSeed(a) == (a * 40503 + 1) % RngMod
\* random.random() < p, with p = tenths / 10
randbool(g, tenths) ==
    LET g1 == RngNext(g) IN [v |-> g1 * 10 < tenths * RngMod, g |-> g1]
\* random.getrandbits(8)
getrandbits8(g) ==
    LET g1 == RngNext(g) IN [v |-> g1 \div (RngMod \div 256), g |-> g1]
\* a uniform integer of 0..n-1, as random.randrange / randint / choice draw it
randbelow(g, n) ==
    LET g1 == RngNext(g) IN [v |-> (g1 * n) \div RngMod, g |-> g1]
\* random.randint(a, b), both ends included
randint(g, a, b) ==
    LET r == randbelow(g, b - a + 1) IN [v |-> a + r.v, g |-> r.g]
\* random.randrange(a, b), b excluded
randrange(g, a, b) ==
    LET r == randbelow(g, b - a) IN [v |-> a + r.v, g |-> r.g]
\* random.choice(seq)
choice(g, seq) ==
    LET r == randbelow(g, Len(seq)) IN [v |-> seq[r.v + 1], g |-> r.g]
\* floor(RngMod * exp(-k/2)) for k = 1, 2, ...: 1 - random() <= exp(-k/2)
ExpoThresholds == <<39749, 24109, 14623, 8869, 5379, 3262, 1979, 1200, 728, 441,
                    267, 162, 98, 59, 36, 21, 13, 8, 4, 2, 1, 1>>
\* int(random.expovariate(0.5)) = floor(-2 * ln(1 - random()))
intexpovariate(g) ==
    LET g1 == RngNext(g)
        w == RngMod - g1
    IN  [v |-> Cardinality({k \in 1..Len(ExpoThresholds) : w <= ExpoThresholds[k]}),
         g |-> g1]

RECURSIVE RandBytesFold(_, _)
\* n further bytes drawn after the bytes st.v, from the generator state st.g
\* (the draws are folded by halves to keep the evaluation shallow)
RandBytesFold(st, n) ==
    IF n <= 0 THEN st
    ELSE IF n = 1
    THEN Let(getrandbits8(st.g), LAMBDA b : [v |-> Append(st.v, b.v), g |-> b.g])
    ELSE Let(RandBytesFold(st, n \div 2), LAMBDA left : RandBytesFold(left, n - (n \div 2)))
\* bytearray(random.getrandbits(8) for _ in range(size))
rand_bytes(g, size) == Let([v |-> <<>>, g |-> g], LAMBDA st : RandBytesFold(st, size))

(***************************************************************************)
(* Bech32 / Bech32m codec (test_framework.segwit_addr).                    *)
(***************************************************************************)
\* "qpzry9x8gf2tvdw0s3jn54khce6mua7l"
CHARSET == <<113, 112, 122, 114, 121, 57, 120, 56, 103, 102, 50, 116, 118, 100, 119, 48,
             115, 51, 106, 110, 53, 52, 107, 104, 99, 101, 54, 109, 117, 97, 55, 108>>
\* CHARSET.find(c): 0-based index, -1 when absent
CharsetFind(c) ==
    IF \E i \in 1..32 : CHARSET[i] = c
    THEN (CHOOSE i \in 1..32 : CHARSET[i] = c) - 1
    ELSE -1
\* the checksum constants of the two encodings
BECH32_CONST == 1
BECH32M_CONST == 734539939
\* Encoding.BECH32, Encoding.BECH32M; NoEncoding is the None of a failed check
Encodings == {"BECH32", "BECH32M"}
NoEncoding == "None"
EncodingConst(encoding) == IF encoding = "BECH32" THEN BECH32_CONST ELSE BECH32M_CONST

\* bit k of a ^ b, in place
XorBit(a, b, k) == (((a \div (2 ^ k)) + (b \div (2 ^ k))) % 2) * (2 ^ k)
\* a ^ b on 5-bit values
Xor5 == [a \in 0..31 |-> [b \in 0..31 |->
           XorBit(a, b, 0) + XorBit(a, b, 1) + XorBit(a, b, 2) + XorBit(a, b, 3)
           + XorBit(a, b, 4)]]
XorChunk(a, b, k) == Xor5[(a \div (32 ^ k)) % 32][(b \div (32 ^ k)) % 32] * (32 ^ k)
\* a ^ b on 30-bit values
Xor(a, b) ==
    XorChunk(a, b, 0) + XorChunk(a, b, 1) + XorChunk(a, b, 2)
    + XorChunk(a, b, 3) + XorChunk(a, b, 4) + XorChunk(a, b, 5)

\* the generator polynomials of the checksum
Generator == <<996825010, 642813549, 513874426, 1027748829, 705979059>>
GenBit(top, i) == IF (top \div (2 ^ i)) % 2 = 1 THEN Generator[i + 1] ELSE 0
\* xor of generator[i] over the bits i set in top
GenTable == [top \in 0..31 |->
    Xor(GenBit(top, 0), Xor(GenBit(top, 1), Xor(GenBit(top, 2),
        Xor(GenBit(top, 3), GenBit(top, 4)))))]
\* one round of the loop of bech32_polymod
PolymodStep(chk, value) ==
    Let(Xor((chk % 33554432) * 32, value), LAMBDA c : Xor(c, GenTable[chk \div 33554432]))
RECURSIVE PolymodFold(_, _, _, _)
\* the rounds for values[lo..hi], folded by halves
PolymodFold(chk, values, lo, hi) ==
    IF lo > hi THEN chk
    ELSE IF lo = hi THEN PolymodStep(chk, values[lo])
    ELSE Let(PolymodFold(chk, values, lo, (lo + hi) \div 2),
             LAMBDA left : PolymodFold(left, values, ((lo + hi) \div 2) + 1, hi))
\* bech32_polymod(values)
bech32_polymod(values) == Let(values, LAMBDA vs : PolymodFold(1, vs, 1, Len(vs)))

\* bech32_hrp_expand(hrp)
bech32_hrp_expand(hrp) ==
    [i \in 1..Len(hrp) |-> hrp[i] \div 32] \o <<0>> \o [i \in 1..Len(hrp) |-> hrp[i] % 32]

\* bech32_verify_checksum(hrp, data): the encoding the checksum is one of
bech32_verify_checksum(hrp, data) ==
    Let(bech32_polymod(bech32_hrp_expand(hrp) \o data), LAMBDA check :
        IF check = BECH32_CONST THEN "BECH32"
        ELSE IF check = BECH32M_CONST THEN "BECH32M"
        ELSE NoEncoding)

\* bech32_create_checksum(encoding, hrp, data)
bech32_create_checksum(encoding, hrp, data) ==
    Let(bech32_polymod(bech32_hrp_expand(hrp) \o data \o <<0, 0, 0, 0, 0, 0>>), LAMBDA chk :
    Let(Xor(chk, EncodingConst(encoding)), LAMBDA polymod :
        <<>> \o [i \in 1..6 |-> (polymod \div (32 ^ (6 - i))) % 32]))

\* bech32_encode(encoding, hrp, data)
bech32_encode(encoding, hrp, data) ==
    Let(data \o bech32_create_checksum(encoding, hrp, data), LAMBDA combined :
        hrp \o <<49>> \o [i \in 1..Len(combined) |-> CHARSET[combined[i] + 1]])

RECURSIVE ConvertDrain(_, _, _, _)
\* the inner loop of convertbits: emit tobits-wide groups while enough bits are held
ConvertDrain(acc, bits, ret, tobits) ==
    IF bits >= tobits
    THEN ConvertDrain(acc, bits - tobits,
                      Append(ret, (acc \div (2 ^ (bits - tobits))) % (2 ^ tobits)), tobits)
    ELSE [bits |-> bits, ret |-> ret]

\* one round of the loop of convertbits on the state [ok, acc, bits, ret]
ConvertStep(st, value, frombits, tobits) ==
    IF ~st.ok \/ value < 0 \/ value >= 2 ^ frombits
    THEN [ok |-> FALSE, acc |-> 0, bits |-> 0, ret |-> <<>>]
    ELSE Let((st.acc * (2 ^ frombits) + value) % (2 ^ (frombits + tobits - 1)), LAMBDA acc1 :
         Let(ConvertDrain(acc1, st.bits + frombits, st.ret, tobits), LAMBDA d :
             [ok |-> TRUE, acc |-> acc1, bits |-> d.bits, ret |-> d.ret]))
RECURSIVE ConvertFold(_, _, _, _, _, _)
\* the rounds for data[lo..hi], folded by halves
ConvertFold(st, data, lo, hi, frombits, tobits) ==
    IF lo > hi THEN st
    ELSE IF lo = hi THEN ConvertStep(st, data[lo], frombits, tobits)
    ELSE Let(ConvertFold(st, data, lo, (lo + hi) \div 2, frombits, tobits),
             LAMBDA left : ConvertFold(left, data, ((lo + hi) \div 2) + 1, hi, frombits, tobits))
\* convertbits(data, frombits, tobits, pad): [ok |-> FALSE] is the None result
convertbits(data, frombits, tobits, pad) ==
    Let(data, LAMBDA ds :
    Let([ok |-> TRUE, acc |-> 0, bits |-> 0, ret |-> <<>>], LAMBDA st0 :
    Let(ConvertFold(st0, ds, 1, Len(ds), frombits, tobits), LAMBDA st :
    Let((st.acc * (2 ^ (tobits - st.bits))) % (2 ^ tobits), LAMBDA rest :
        IF ~st.ok THEN [ok |-> FALSE, v |-> <<>>]
        ELSE IF pad
        THEN [ok |-> TRUE, v |-> IF st.bits > 0 THEN Append(st.ret, rest) ELSE st.ret]
        ELSE IF st.bits >= frombits \/ rest # 0
        THEN [ok |-> FALSE, v |-> <<>>]
        ELSE [ok |-> TRUE, v |-> st.ret]))))

\* bech.rfind('1'), 0-based, -1 when absent
RfindOne(bech) ==
    IF \E i \in 1..Len(bech) : bech[i] = 49
    THEN (CHOOSE i \in 1..Len(bech) : bech[i] = 49 /\ \A j \in (i + 1)..Len(bech) : bech[j] # 49) - 1
    ELSE -1

\* the failure results (None, None, None) and (None, None)
DecodeFail == [encoding |-> NoEncoding, hrp |-> <<>>, data |-> <<>>]
SegwitFail == [ok |-> FALSE, witver |-> -1, witprog |-> <<>>]

\* bech32_decode(bech)
bech32_decode(bech) ==
    IF (\E i \in 1..Len(bech) : bech[i] < 33 \/ bech[i] > 126)
       \/ (lower(bech) # bech /\ upper(bech) # bech)
    THEN DecodeFail
    ELSE Let(<<>> \o lower(bech), LAMBDA b :
         Let(RfindOne(b), LAMBDA pos :
             IF pos < 1 \/ pos + 7 > Len(b) \/ Len(b) > 90
             THEN DecodeFail
             ELSE IF \E i \in (pos + 2)..Len(b) : CharsetFind(b[i]) < 0
             THEN DecodeFail
             ELSE Let(Slice(b, 0, pos), LAMBDA hrp :
                  Let(<<>> \o [i \in 1..(Len(b) - pos - 1) |-> CharsetFind(b[pos + 1 + i])],
                      LAMBDA data :
                  Let(bech32_verify_checksum(hrp, data), LAMBDA encoding :
                      IF encoding = NoEncoding
                      THEN DecodeFail
                      ELSE [encoding |-> encoding, hrp |-> hrp,
                            data |-> Slice(data, 0, Len(data) - 6)])))))

\* decode_segwit_address(hrp, addr): SegwitFail is the (None, None) result.
\* Witness version 0 is accepted with the Bech32m checksum the templates use;
\* any other version requires Bech32m.
decode_segwit_address(hrp, addr) ==
    Let(bech32_decode(addr), LAMBDA dec :
        IF dec.encoding = NoEncoding \/ dec.hrp # hrp
        THEN SegwitFail
        ELSE Let(convertbits(SliceFrom(dec.data, 1), 5, 8, FALSE), LAMBDA decoded :
                 IF ~decoded.ok \/ Len(decoded.v) < 2 \/ Len(decoded.v) > 40
                 THEN SegwitFail
                 ELSE IF dec.data[1] > 16
                 THEN SegwitFail
                 ELSE IF dec.data[1] = 0 /\ Len(decoded.v) # 20 /\ Len(decoded.v) # 32
                 THEN SegwitFail
                 ELSE IF dec.data[1] # 0 /\ dec.encoding # "BECH32M"
                 THEN SegwitFail
                 ELSE [ok |-> TRUE, witver |-> dec.data[1], witprog |-> decoded.v]))

(***************************************************************************)
(* The validity oracle.                                                    *)
(***************************************************************************)
\* is_valid_bech32(v)
is_valid_bech32(v) ==
    \E hrp \in {HrpRic, HrpTric, HrpRric} : decode_segwit_address(hrp, v).ok

\* is_valid(v)
is_valid(v) ==
    IF Len(v) = 67
    THEN Slice(v, 0, 3) = StrPrv
    ELSE IF Len(v) = 46 /\ Slice(v, 0, 4) = StrA914 /\ Slice(v, 44, 46) = Str87
    THEN TRUE
    ELSE IF Len(v) = 50 /\ Slice(v, 0, 6) = Str76A914 /\ Slice(v, 46, 50) = Str88AC
    THEN TRUE
    ELSE is_valid_bech32(v)

(***************************************************************************)
(* The template registries.  A metadata entry is <<value>>, or <<>> for    *)
(* None.                                                                   *)
(***************************************************************************)
metadata_keys == <<"isPrivkey", "chain", "isCompressed", "tryCaseFlip">>
LegacyTemplate(prefix, payload_size, suffix, metadata, output_prefix, output_suffix) ==
    [prefix |-> prefix, payload_size |-> payload_size, suffix |-> suffix,
     metadata |-> metadata, output_prefix |-> output_prefix,
     output_suffix |-> output_suffix]
Bech32Template(hrp, witver, witprog_size, metadata, encoding, output_prefix) ==
    [hrp |-> hrp, witver |-> witver, witprog_size |-> witprog_size,
     metadata |-> metadata, encoding |-> encoding, output_prefix |-> output_prefix]
Bech32NgTemplate(hrp, witver, witprog_size, encoding, invalid_bech32, invalid_checksum, invalid_char) ==
    [hrp |-> hrp, witver |-> witver, witprog_size |-> witprog_size,
     encoding |-> encoding, invalid_bech32 |-> invalid_bech32,
     invalid_checksum |-> invalid_checksum, invalid_char |-> invalid_char]

MdAddress(chain) == << <<FALSE>>, <<chain>>, <<>>, <<>> >>
MdPrivkey(chain) == << <<TRUE>>, <<chain>>, <<TRUE>>, <<>> >>
MdBech32(chain) == << <<FALSE>>, <<chain>>, <<>>, <<TRUE>> >>

\* templates for valid sequences
templates == <<
    LegacyTemplate(StrEmpty, 20, <<>>, MdAddress("main"), pubkey_prefix, pubkey_suffix),
    LegacyTemplate(StrEmpty, 20, <<>>, MdAddress("main"), script_prefix, script_suffix),
    LegacyTemplate(StrPrv, 32, <<>>, MdPrivkey("main"), <<>>, <<>>) >>

\* templates for valid bech32 sequences
bech32_templates == <<
    Bech32Template(HrpRic, 0, 20, MdBech32("main"), "BECH32M", p2wpkh_prefix),
    Bech32Template(HrpRic, 0, 32, MdBech32("main"), "BECH32M", p2wsh_prefix),
    Bech32Template(HrpRic, 1, 32, MdBech32("main"), "BECH32M", p2tr_prefix),
    Bech32Template(HrpRic, 2, 2, MdBech32("main"), "BECH32M", <<OP_2, 2>>),
    Bech32Template(HrpTric, 0, 20, MdBech32("test"), "BECH32M", p2wpkh_prefix),
    Bech32Template(HrpTric, 0, 32, MdBech32("test"), "BECH32M", p2wsh_prefix),
    Bech32Template(HrpTric, 1, 32, MdBech32("test"), "BECH32M", p2tr_prefix),
    Bech32Template(HrpTric, 3, 16, MdBech32("test"), "BECH32M", <<OP_3, 16>>),
    Bech32Template(HrpRric, 0, 20, MdBech32("regtest"), "BECH32M", p2wpkh_prefix),
    Bech32Template(HrpRric, 0, 32, MdBech32("regtest"), "BECH32M", p2wsh_prefix),
    Bech32Template(HrpRric, 1, 32, MdBech32("regtest"), "BECH32M", p2tr_prefix),
    Bech32Template(HrpRric, 16, 40, MdBech32("regtest"), "BECH32M", <<OP_16, 40>>) >>

\* templates for invalid bech32 sequences
bech32_ng_templates == <<
    Bech32NgTemplate(HrpTc, 0, 20, "BECH32M", FALSE, FALSE, FALSE),
    Bech32NgTemplate(HrpBt, 1, 32, "BECH32M", FALSE, FALSE, FALSE),
    Bech32NgTemplate(HrpTric, 17, 32, "BECH32M", FALSE, FALSE, FALSE),
    Bech32NgTemplate(HrpRric, 3, 1, "BECH32M", FALSE, FALSE, FALSE),
    Bech32NgTemplate(HrpRic, 15, 41, "BECH32M", FALSE, FALSE, FALSE),
    Bech32NgTemplate(HrpTric, 0, 16, "BECH32M", FALSE, FALSE, FALSE),
    Bech32NgTemplate(HrpRric, 0, 32, "BECH32M", TRUE, FALSE, FALSE),
    Bech32NgTemplate(HrpRic, 0, 16, "BECH32M", TRUE, FALSE, FALSE),
    Bech32NgTemplate(HrpTric, 0, 32, "BECH32M", FALSE, TRUE, FALSE),
    Bech32NgTemplate(HrpRric, 0, 20, "BECH32M", FALSE, FALSE, TRUE),
    Bech32NgTemplate(HrpRic, 0, 20, "BECH32M", FALSE, FALSE, FALSE),
    Bech32NgTemplate(HrpTric, 0, 32, "BECH32M", FALSE, FALSE, FALSE),
    Bech32NgTemplate(HrpRric, 0, 20, "BECH32M", FALSE, FALSE, FALSE),
    Bech32NgTemplate(HrpRic, 1, 32, "BECH32M", FALSE, FALSE, FALSE),
    Bech32NgTemplate(HrpTric, 2, 16, "BECH32M", FALSE, FALSE, FALSE),
    Bech32NgTemplate(HrpRric, 16, 20, "BECH32M", FALSE, FALSE, FALSE) >>

(***************************************************************************)
(* The generators.  Each takes the generator state g before its draws and  *)
(* returns its result together with the state g after them.                *)
(***************************************************************************)
\* gen_valid_legacy_vector with a fault: the string is built without the
\* output suffix
gen_valid_legacy_vector_no_suffix(g, template) ==
    Let(rand_bytes(g, template.payload_size), LAMBDA payload :
        [rv |-> template.prefix \o hex(template.output_prefix) \o hex(payload.v),
         payload |-> template.output_prefix \o payload.v \o template.output_suffix,
         g |-> payload.g])
\* gen_valid_legacy_vector with a fault: the payload returned is the bare drawn
\* bytes, without the script wrapping the string carries
gen_valid_legacy_vector_bare_payload(g, template) ==
    Let(rand_bytes(g, template.payload_size), LAMBDA payload :
        [rv |-> template.prefix \o hex(template.output_prefix) \o hex(payload.v)
                  \o hex(template.output_suffix),
         payload |-> payload.v,
         g |-> payload.g])
\* gen_valid_legacy_vector(template): (rv, payload with its script wrapping)
gen_valid_legacy_vector(g, template) ==
    Let(template.prefix, LAMBDA prefix :
    Let(rand_bytes(g, template.payload_size), LAMBDA payload :
    Let(template.output_prefix, LAMBDA dst_prefix :
    Let(template.output_suffix, LAMBDA dst_suffix :
        [rv |-> prefix \o hex(dst_prefix) \o hex(payload.v) \o hex(dst_suffix),
         payload |-> dst_prefix \o payload.v \o dst_suffix,
         g |-> payload.g]))))

\* gen_valid_bech32_vector with a fault: the payload returned is the witness
\* program without the output prefix
gen_valid_bech32_vector_bare_payload(g, template) ==
    Let(rand_bytes(g, template.witprog_size), LAMBDA witprog :
    Let(<<template.witver>> \o convertbits(witprog.v, 8, 5, TRUE).v, LAMBDA data :
        [rv |-> bech32_encode(template.encoding, template.hrp, data),
         payload |-> witprog.v,
         g |-> witprog.g]))
\* gen_valid_bech32_vector(template)
gen_valid_bech32_vector(g, template) ==
    Let(template.hrp, LAMBDA hrp :
    Let(template.witver, LAMBDA witver :
    Let(rand_bytes(g, template.witprog_size), LAMBDA witprog :
    Let(template.encoding, LAMBDA encoding :
    Let(template.output_prefix, LAMBDA dst_prefix :
    Let(<<witver>> \o convertbits(witprog.v, 8, 5, TRUE).v, LAMBDA data :
        [rv |-> bech32_encode(encoding, hrp, data),
         payload |-> dst_prefix \o witprog.v,
         g |-> witprog.g]))))))

\* max(a, b)
Max(a, b) == IF a >= b THEN a ELSE b

\* the line corruption of gen_invalid_legacy_vector, applied to val; the result
\* also tells the branch taken and the index n drawn (-1 when none is drawn)
LineCorruption(g, val) ==
    Let(randint(g, 0, 10), LAMBDA hit :
        IF hit.v < 1
        THEN Let(randbool(hit.g, 5), LAMBDA append :
                 IF append.v
                 THEN \* add random character to end
                      Let(choice(append.g, HexDigits), LAMBDA c :
                          [val |-> Append(val, c.v), g |-> c.g, branch |-> "append", n |-> -1])
                 ELSE \* replace random character in the middle
                      Let(randint(append.g, 0, Len(val)), LAMBDA n :
                      Let(choice(n.g, HexDigits), LAMBDA c :
                          [val |-> Slice(val, 0, n.v) \o <<c.v>> \o SliceFrom(val, n.v + 1),
                           g |-> c.g, branch |-> "overwrite", n |-> n.v])))
        ELSE [val |-> val, g |-> hit.g, branch |-> "none", n |-> -1])

\* gen_invalid_legacy_vector(template): a possibly invalid vector, returned as
\* val; the other fields are the locals of the call when it returns
gen_invalid_legacy_vector(g, template) ==
    Let(randbool(g, 2), LAMBDA corrupt_prefix :
    Let(randbool(corrupt_prefix.g, 2), LAMBDA randomize_payload_size :
    Let(randbool(randomize_payload_size.g, 2), LAMBDA corrupt_suffix :
    Let(IF corrupt_prefix.v
        THEN Let(rand_bytes(corrupt_suffix.g, Len(template.prefix)), LAMBDA r :
                 [v |-> <<>> \o hex(r.v), g |-> r.g])
        ELSE [v |-> template.prefix \o hex(template.output_prefix),
              g |-> corrupt_suffix.g], LAMBDA prefix :
    Let(IF randomize_payload_size.v
        THEN Let(intexpovariate(prefix.g), LAMBDA e : rand_bytes(e.g, Max(e.v, 50)))
        ELSE rand_bytes(prefix.g, template.payload_size), LAMBDA payload :
    Let(IF corrupt_suffix.v
        THEN Let(rand_bytes(payload.g, Len(template.suffix)), LAMBDA r :
                 [v |-> <<>> \o hex(r.v), g |-> r.g])
        ELSE \* the code takes template[4], the output prefix, here
             [v |-> <<>> \o hex(template.output_prefix), g |-> payload.g], LAMBDA suffix :
    Let(prefix.v \o hex(payload.v) \o suffix.v, LAMBDA val :
    Let(LineCorruption(suffix.g, val), LAMBDA line :
        [val |-> line.val, g |-> line.g,
         corrupt_prefix |-> corrupt_prefix.v,
         randomize_payload_size |-> randomize_payload_size.v,
         corrupt_suffix |-> corrupt_suffix.v,
         payload |-> payload.v, before_line |-> val,
         branch |-> line.branch, n |-> line.n]))))))))

\* d | 1
OrOne(d) == IF d % 2 = 1 THEN d ELSE d + 1
\* CHARSET.replace(c, '')
CharsetWithout(c) == SelectSeq(CHARSET, LAMBDA x : x # c)

\* the symbols with a fault: the low bit of the last symbol is set whatever the
\* size of the program
InvalidBech32DataAlwaysOr(template, witprog) ==
    Let(<<template.witver>> \o convertbits(witprog, 8, 5, TRUE).v, LAMBDA data :
        IF template.invalid_bech32
        THEN <<>> \o [i \in 1..Len(data) |->
                        IF i = Len(data) THEN OrOne(data[i]) ELSE data[i]]
        ELSE data)
\* the symbols gen_invalid_bech32_vector encodes when it does not take the
\* empty-data branch
InvalidBech32Data(template, witprog) ==
    Let(<<template.witver>> \o convertbits(witprog, 8, 5, TRUE).v, LAMBDA data :
        IF template.invalid_bech32
        THEN IF template.witprog_size % 5 \in {2, 4}
             THEN <<>> \o [i \in 1..Len(data) |->
                             IF i = Len(data) THEN OrOne(data[i]) ELSE data[i]]
             ELSE Append(data, 0)
        ELSE data)

\* gen_invalid_bech32_vector(template): a possibly invalid bech32 vector
gen_invalid_bech32_vector(g, template) ==
    Let(randbool(g, 1), LAMBDA no_data :
    Let(randbool(no_data.g, 1), LAMBDA to_upper :
    Let(template.hrp, LAMBDA hrp :
    Let(rand_bytes(to_upper.g, template.witprog_size), LAMBDA witprog :
    Let(template.encoding, LAMBDA encoding :
    Let(IF no_data.v
        THEN bech32_encode(encoding, hrp, <<>>)
        ELSE Let(InvalidBech32Data(template, witprog.v), LAMBDA data :
                 bech32_encode(encoding, hrp, data)), LAMBDA rv0 :
    Let(IF template.invalid_checksum
        THEN Let(randrange(witprog.g, 1, 7), LAMBDA r :
             Let(Len(rv0) - r.v, LAMBDA i :
             Let(choice(r.g, CharsetWithout(rv0[i + 1])), LAMBDA c :
                 [v |-> Slice(rv0, 0, i) \o <<c.v>> \o SliceFrom(rv0, i + 1), g |-> c.g])))
        ELSE [v |-> rv0, g |-> witprog.g], LAMBDA rv1 :
    Let(IF template.invalid_char
        THEN Let(randrange(rv1.g, 0, Len(rv1.v) - Len(hrp) - 4), LAMBDA r :
             Let(Len(hrp) + 1 + r.v, LAMBDA i :
                 [v |-> Slice(rv1.v, 0, i) \o upper(Slice(rv1.v, i, i + 4))
                          \o SliceFrom(rv1.v, i + 4),
                  g |-> r.g]))
        ELSE rv1, LAMBDA rv2 :
        [val |-> IF to_upper.v THEN <<>> \o swapcase(rv2.v) ELSE rv2.v, g |-> rv2.g]))))))))

\* the pairs of gen_valid_vectors with a fault: the two lists zipped in the
\* other order, bech32 templates first
ValidPairsBech32First ==
    [i \in 1..Len(bech32_templates) |-> [gen |-> "bech32", template |-> bech32_templates[i]]]
    \o [i \in 1..Len(templates) |-> [gen |-> "legacy", template |-> templates[i]]]
\* the (template, generator) pairs of gen_valid_vectors, in the order of its loop
ValidPairs ==
    [i \in 1..Len(templates) |-> [gen |-> "legacy", template |-> templates[i]]]
    \o [i \in 1..Len(bech32_templates) |-> [gen |-> "bech32", template |-> bech32_templates[i]]]
\* the (template, generator) pairs of gen_invalid_vectors, in the order of its loop
InvalidPairs ==
    [i \in 1..Len(templates) |-> [gen |-> "legacy", template |-> templates[i]]]
    \o [i \in 1..Len(bech32_ng_templates) |->
            [gen |-> "bech32", template |-> bech32_ng_templates[i]]]

\* valid_vector_generator(template) for a pair of ValidPairs
ValidVector(g, pair) ==
    IF pair.gen = "legacy"
    THEN gen_valid_legacy_vector(g, pair.template)
    ELSE gen_valid_bech32_vector(g, pair.template)
\* invalid_vector_generator(template) for a pair of InvalidPairs
InvalidVector(g, pair) ==
    IF pair.gen = "legacy"
    THEN gen_invalid_legacy_vector(g, pair.template)
    ELSE gen_invalid_bech32_vector(g, pair.template)

\* {x: y for x, y in zip(metadata_keys, template[3]) if y is not None}
Metadata(md) ==
    [k \in {metadata_keys[i] : i \in {j \in 1..Len(md) : md[j] # <<>>}} |->
        md[CHOOSE i \in 1..Len(md) : metadata_keys[i] = k][1]]

\* the edge cases with a fault: yielded in the other order
EdgeCasesSwapped == << <<StrX>>, <<StrEmpty>> >>
\* the two manual edge cases gen_invalid_vectors starts with, as it yields them
EdgeCases == << <<StrEmpty>>, <<StrX>> >>

(***************************************************************************)
(* State.  A process owns one random source; a stream is one generator     *)
(* object (gen_valid_vectors() or gen_invalid_vectors()) together with the *)
(* islice that consumes it and the list it fills.  The command-line run is *)
(* one process with one stream.                                            *)
(***************************************************************************)
VARIABLES
    argv,     \* sys.argv[1:]
    seed,     \* the argument of random.seed
    rng,      \* rng[p]: state of the random module of process p
    owner,    \* owner[s]: the process stream s runs in
    uiter,    \* uiter[s]: "valid" for gen_valid_vectors, "invalid" for gen_invalid_vectors
    count,    \* count[s]: the bound of the islice on stream s
    pos,      \* pos[s]: where the generator stands: -2, -1 before the first and second
              \* edge case of gen_invalid_vectors, else the 0-based index in the for loop
    data,     \* data[s]: the tuples the stream has yielded to its consumer so far
    pc,       \* pc[s]: "run", "done" or "AssertionError"
    stdout,   \* stdout[s]: what json.dump has written
    dropped,  \* dropped[s]: the candidates gen_invalid_vectors has dropped in a row
              \* since its last yield (history of the loop, not a variable of the code)
    cand,     \* the candidate string handed to the oracle (oracle specification)
    verdict   \* the oracle's answer on cand, <<>> before the call

vars == <<argv, seed, rng, owner, uiter, count, pos, data, pc, stdout, dropped, cand, verdict>>

Streams == DOMAIN uiter
Modes == {"valid", "invalid"}
\* the seeds tried: the script's own 42 and 0..MaxSeed
TheSeed == 42
Seeds == {TheSeed} \cup (0..MaxSeed)
\* the command lines: no argument, the mode only, the mode and a count
Argvs == {<<>>} \cup {<<m>> : m \in Modes} \cup {<<m, n>> : m \in Modes, n \in 0..MaxCount}

\* iters[sys.argv[1]], gen_valid_vectors when the argument is absent
UiterOf(av) == IF Len(av) >= 1 THEN av[1] ELSE "valid"
\* the count with a fault: one element when the argument is absent
CountOfDefaultOne(av) == IF Len(av) >= 2 THEN av[2] ELSE 1
\* int(sys.argv[2]), 0 when the argument is absent
CountOf(av) == IF Len(av) >= 2 THEN av[2] ELSE 0

NothingWritten == [written |-> FALSE, array |-> <<>>]
\* the position a generator starts at
StartPos(kind) == IF kind = "invalid" THEN 0 - Len(EdgeCases) ELSE 0

\* the command-line run: random.seed(seed), one stream chosen by argv
Init ==
    /\ argv \in Argvs
    /\ seed \in Seeds
    /\ rng = [p \in {1} |-> RngSeed(seed)]
    /\ owner = [s \in {1} |-> 1]
    /\ uiter = [s \in {1} |-> UiterOf(argv)]
    /\ count = [s \in {1} |-> CountOf(argv)]
    /\ pos = [s \in {1} |-> StartPos(UiterOf(argv))]
    /\ data = [s \in {1} |-> <<>>]
    /\ pc = [s \in {1} |-> "run"]
    /\ stdout = [s \in {1} |-> NothingWritten]
    /\ dropped = [s \in {1} |-> 0]
    /\ cand = <<>>
    /\ verdict = <<>>

\* the round of gen_valid_vectors with a fault: the random source is not the
\* seeded one but depends on the process that runs the round
NextValidUnseeded(s) ==
    /\ pc[s] = "run"
    /\ uiter[s] = "valid"
    /\ Len(data[s]) < count[s]
    /\ \E pair \in {ValidPairs[pos[s] + 1]} :
       \E r \in {ValidVector((rng[owner[s]] + owner[s]) % RngMod, pair)} :
           /\ rng' = [rng EXCEPT ![owner[s]] = r.g]
           /\ data' = [data EXCEPT ![s] =
                         Append(@, <<r.rv, <<>> \o hex(r.payload),
                                     Metadata(pair.template.metadata)>>)]
           /\ pos' = [pos EXCEPT ![s] = (@ + 1) % Len(ValidPairs)]
    /\ UNCHANGED <<argv, seed, owner, uiter, count, pc, stdout, dropped, cand, verdict>>
\* one round of the for loop of gen_valid_vectors, entered by next() of the islice
NextValid(s) ==
    /\ pc[s] = "run"
    /\ uiter[s] = "valid"
    /\ Len(data[s]) < count[s]
    /\ \E pair \in {ValidPairs[pos[s] + 1]} :
       \E r \in {ValidVector(rng[owner[s]], pair)} :
       \E valid \in {is_valid(r.rv)} :
           /\ rng' = [rng EXCEPT ![owner[s]] = r.g]
           /\ data' = [data EXCEPT ![s] =
                         IF valid
                         THEN Append(@, <<r.rv, <<>> \o hex(r.payload),
                                          Metadata(pair.template.metadata)>>)
                         ELSE @]
           /\ pos' = [pos EXCEPT ![s] = IF valid THEN (@ + 1) % Len(ValidPairs) ELSE @]
           \* assert is_valid(rv)
           /\ pc' = [pc EXCEPT ![s] = IF valid THEN @ ELSE "AssertionError"]
    /\ UNCHANGED <<argv, seed, owner, uiter, count, stdout, dropped, cand, verdict>>

\* one of the two leading yields of gen_invalid_vectors
YieldEdge(s) ==
    /\ pc[s] = "run"
    /\ uiter[s] = "invalid"
    /\ Len(data[s]) < count[s]
    /\ pos[s] < 0
    /\ data' = [data EXCEPT ![s] = Append(@, EdgeCases[pos[s] + Len(EdgeCases) + 1])]
    /\ pos' = [pos EXCEPT ![s] = @ + 1]
    /\ UNCHANGED <<argv, seed, rng, owner, uiter, count, pc, stdout, dropped, cand, verdict>>

\* the round of gen_invalid_vectors with a fault: the candidate is yielded
\* without asking the oracle
NextInvalidUnfiltered(s) ==
    /\ pc[s] = "run"
    /\ uiter[s] = "invalid"
    /\ Len(data[s]) < count[s]
    /\ pos[s] >= 0
    /\ \E r \in {InvalidVector(rng[owner[s]], InvalidPairs[pos[s] + 1])} :
           /\ rng' = [rng EXCEPT ![owner[s]] = r.g]
           /\ data' = [data EXCEPT ![s] = Append(@, <<r.val>>)]
    /\ pos' = [pos EXCEPT ![s] = (@ + 1) % Len(InvalidPairs)]
    /\ UNCHANGED <<argv, seed, owner, uiter, count, pc, stdout, dropped, cand, verdict>>
\* one round of the for loop of gen_invalid_vectors: the candidate is yielded
\* when the oracle rejects it and dropped otherwise
NextInvalid(s) ==
    /\ pc[s] = "run"
    /\ uiter[s] = "invalid"
    /\ Len(data[s]) < count[s]
    /\ pos[s] >= 0
    /\ \E pair \in {InvalidPairs[pos[s] + 1]} :
       \E r \in {InvalidVector(rng[owner[s]], pair)} :
       \E valid \in {is_valid(r.val)} :
           /\ rng' = [rng EXCEPT ![owner[s]] = r.g]
           /\ data' = [data EXCEPT ![s] = IF ~valid THEN Append(@, <<r.val>>) ELSE @]
           /\ dropped' = [dropped EXCEPT ![s] = IF ~valid THEN 0 ELSE @ + 1]
    /\ pos' = [pos EXCEPT ![s] = (@ + 1) % Len(InvalidPairs)]
    /\ UNCHANGED <<argv, seed, owner, uiter, count, pc, stdout, cand, verdict>>

\* the islice is exhausted: list() returns and json.dump writes the array
Finish(s) ==
    /\ pc[s] = "run"
    /\ Len(data[s]) = count[s]
    /\ pc' = [pc EXCEPT ![s] = "done"]
    /\ stdout' = [stdout EXCEPT ![s] = [written |-> TRUE, array |-> data[s]]]
    /\ UNCHANGED <<argv, seed, rng, owner, uiter, count, pos, data, dropped, cand, verdict>>

Next ==
    \/ \E s \in Streams : NextValid(s)
    \/ \E s \in Streams : YieldEdge(s)
    \/ \E s \in Streams : NextInvalid(s)
    \/ \E s \in Streams : Finish(s)

Spec == Init /\ [][Next]_vars

\* the run keeps executing while it has a step to take
FairSpec == Spec /\ WF_vars(Next)

(***************************************************************************)
(* Two runs of the script on the same command line, each a process of its  *)
(* own, seeded with the same value.                                        *)
(***************************************************************************)
InitTwoRuns ==
    /\ argv \in {<<m, MaxPull>> : m \in Modes}
    /\ seed \in Seeds
    /\ rng = [p \in {1, 2} |-> RngSeed(seed)]
    /\ owner = [s \in {1, 2} |-> s]
    /\ uiter = [s \in {1, 2} |-> UiterOf(argv)]
    /\ count = [s \in {1, 2} |-> CountOf(argv)]
    /\ pos = [s \in {1, 2} |-> StartPos(UiterOf(argv))]
    /\ data = [s \in {1, 2} |-> <<>>]
    /\ pc = [s \in {1, 2} |-> "run"]
    /\ stdout = [s \in {1, 2} |-> NothingWritten]
    /\ dropped = [s \in {1, 2} |-> 0]
    /\ cand = <<>>
    /\ verdict = <<>>

SpecTwoRuns == InitTwoRuns /\ [][Next]_vars

(***************************************************************************)
(* Two streams created in one process after random.seed(seed) and consumed *)
(* in any interleaving, MaxPull elements each: both draw from the one      *)
(* random source of the process.                                           *)
(***************************************************************************)
InitShared ==
    /\ argv = <<>>
    /\ seed \in Seeds
    /\ rng = [p \in {1} |-> RngSeed(seed)]
    /\ owner = [s \in {1, 2} |-> 1]
    /\ uiter \in [{1, 2} -> Modes]
    /\ count = [s \in {1, 2} |-> MaxPull]
    /\ pos = [s \in {1, 2} |-> StartPos(uiter[s])]
    /\ data = [s \in {1, 2} |-> <<>>]
    /\ pc = [s \in {1, 2} |-> "run"]
    /\ stdout = [s \in {1, 2} |-> NothingWritten]
    /\ dropped = [s \in {1, 2} |-> 0]
    /\ cand = <<>>
    /\ verdict = <<>>

SpecShared == InitShared /\ [][Next]_vars

(***************************************************************************)
(* The oracle as a function: is_valid applied to one candidate string.     *)
(***************************************************************************)
\* witness program sizes of the candidates: the sizes of the registries, the
\* limits 1, 2, 40, 41 of the decoder, and 34 and 35, whose addresses are 67
\* characters long
CandSizes == {1, 2, 16, 20, 32, 34, 35, 40, 41}
CandVersions == {0, 1, 16, 17}
CandHrps == {HrpRic, HrpTric, HrpRric, HrpTc}
\* bech32m addresses of every shape, as gen_valid_bech32_vector builds them
Bech32Candidates ==
    {gen_valid_bech32_vector(RngSeed(sd), Bech32Template(h, v, n, <<>>, "BECH32M", <<>>)).rv :
        sd \in Seeds, h \in CandHrps, v \in CandVersions, n \in CandSizes}
\* the valid legacy vectors, and each with its last character cut, doubled or
\* replaced
LegacyCandidates ==
    UNION {LET rv == gen_valid_legacy_vector(RngSeed(sd), templates[i]).rv
           IN  {rv, Slice(rv, 0, Len(rv) - 1), Append(rv, rv[Len(rv)]),
                Append(Slice(rv, 0, Len(rv) - 1), 120), SliceFrom(rv, 1)} :
           sd \in Seeds, i \in 1..Len(templates)}
\* strings with the length, prefix and suffix of a script form whose 40 middle
\* characters are not all hexadecimal: all 'x', or a valid vector with one 'x'
ScriptFrameCandidates ==
    {StrA914 \o [i \in 1..40 |-> 120] \o Str87,
     Str76A914 \o [i \in 1..40 |-> 120] \o Str88AC}
    \cup {Slice(rv, 0, 10) \o <<120>> \o SliceFrom(rv, 11) :
            rv \in {gen_valid_legacy_vector(RngSeed(sd), templates[i]).rv :
                      sd \in Seeds, i \in 1..2}}
Candidates ==
    {StrEmpty, StrX} \cup LegacyCandidates \cup Bech32Candidates
    \cup {swapcase(c) : c \in Bech32Candidates} \cup ScriptFrameCandidates

InitOracle ==
    /\ cand \in Candidates
    /\ verdict = <<>>
    /\ argv = <<>>
    /\ seed = TheSeed
    /\ rng = <<>>
    /\ owner = <<>>
    /\ uiter = <<>>
    /\ count = <<>>
    /\ pos = <<>>
    /\ data = <<>>
    /\ pc = <<>>
    /\ stdout = <<>>
    /\ dropped = <<>>

\* the call is_valid(cand)
CallIsValid ==
    /\ verdict = <<>>
    /\ verdict' = <<is_valid(cand)>>
    /\ UNCHANGED <<argv, seed, rng, owner, uiter, count, pos, data, pc, stdout, dropped, cand>>

NextOracle == CallIsValid

SpecOracle == InitOracle /\ [][NextOracle]_vars

(***************************************************************************)
(* The data symbols of gen_invalid_bech32_vector as a function of the      *)
(* template and the drawn program, for templates with the invalid_bech32   *)
(* flag and programs of every size up to MaxProgSize and the registered    *)
(* sizes.                                                                  *)
(***************************************************************************)
MaxProgSize == 11
ProgSizes == (0..MaxProgSize) \cup {16, 20, 32, 40}
ProgVersions == {0, 1, 16}

InitPadding ==
    /\ \E n \in ProgSizes, v \in ProgVersions, sd \in Seeds :
          cand = [template |-> Bech32NgTemplate(HrpRic, v, n, "BECH32M", TRUE, FALSE, FALSE),
                  witprog |-> rand_bytes(RngSeed(sd), n).v]
    /\ verdict = <<>>
    /\ argv = <<>>
    /\ seed = TheSeed
    /\ rng = <<>>
    /\ owner = <<>>
    /\ uiter = <<>>
    /\ count = <<>>
    /\ pos = <<>>
    /\ data = <<>>
    /\ pc = <<>>
    /\ stdout = <<>>
    /\ dropped = <<>>

\* the symbol list is built: lines 172-177 of gen_invalid_bech32_vector
CallInvalidBech32Data ==
    /\ verdict = <<>>
    /\ verdict' = <<InvalidBech32Data(cand.template, cand.witprog)>>
    /\ UNCHANGED <<argv, seed, rng, owner, uiter, count, pos, data, pc, stdout, dropped, cand>>

NextPadding == CallInvalidBech32Data

SpecPadding == InitPadding /\ [][NextPadding]_vars

(***************************************************************************)
(* One call of gen_invalid_legacy_vector, for each legacy template, from   *)
(* each of the states 0..MaxDraw of the random source.                     *)
(***************************************************************************)
MaxDraw == 520

InitLegacy ==
    /\ \E i \in 1..Len(templates), g \in 0..MaxDraw : cand = [template |-> templates[i], g |-> g]
    /\ verdict = <<>>
    /\ argv = <<>>
    /\ seed = TheSeed
    /\ rng = <<>>
    /\ owner = <<>>
    /\ uiter = <<>>
    /\ count = <<>>
    /\ pos = <<>>
    /\ data = <<>>
    /\ pc = <<>>
    /\ stdout = <<>>
    /\ dropped = <<>>

\* the call gen_invalid_legacy_vector(template)
CallGenInvalidLegacy ==
    /\ verdict = <<>>
    /\ verdict' = <<gen_invalid_legacy_vector(cand.g, cand.template)>>
    /\ UNCHANGED <<argv, seed, rng, owner, uiter, count, pos, data, pc, stdout, dropped, cand>>

NextLegacy == CallGenInvalidLegacy

SpecLegacy == InitLegacy /\ [][NextLegacy]_vars

(***************************************************************************)
(* Properties.                                                             *)
(***************************************************************************)
Last(q) == q[Len(q)]
Min(a, b) == IF a <= b THEN a ELSE b
IsPrefixOf(a, b) == Len(a) <= Len(b) /\ Slice(b, 0, Len(a)) = a

\* C1: every string the valid generators build, for every registered legacy and
\* bech32 template and every draw, is accepted by is_valid: the assertion of
\* gen_valid_vectors never fails and every vector it yields is accepted.
C1_ValidAccepted ==
    \A s \in Streams :
        /\ pc[s] # "AssertionError"
        /\ (uiter[s] = "valid" /\ data[s] # <<>>) => is_valid(Last(data[s])[1])
\* a valid stream that has gone through every template once
C1_Witness ==
    \E s \in Streams : uiter[s] = "valid" /\ Len(data[s]) = Len(ValidPairs)

\* C2: every element gen_invalid_vectors yields, the two edge cases and every
\* template-generated string, is rejected by is_valid; a candidate the oracle
\* accepts is dropped.
C2_InvalidRejected ==
    \A s \in Streams :
        (uiter[s] = "invalid" /\ data[s] # <<>>) =>
            /\ Len(Last(data[s])) = 1
            /\ ~is_valid(Last(data[s])[1])
\* an invalid stream past its edge cases that has yielded a generated string and
\* has dropped a candidate: fewer yields than rounds of the loop
C2_Witness ==
    \E s \in Streams :
        /\ uiter[s] = "invalid"
        /\ pos[s] > 0
        /\ Len(data[s]) > Len(EdgeCases)
        /\ Len(data[s]) - Len(EdgeCases) < pos[s]

\* the three legacy shapes is_valid decides by itself
IsPrivkeyForm(v) == Len(v) = 67 /\ Slice(v, 0, 3) = StrPrv
IsP2SHForm(v) == Len(v) = 46 /\ Slice(v, 0, 4) = StrA914 /\ Slice(v, 44, 46) = Str87
IsP2PKHForm(v) == Len(v) = 50 /\ Slice(v, 0, 6) = Str76A914 /\ Slice(v, 46, 50) = Str88AC

\* C3: for a candidate that is neither a private-key encoding, a P2SH form nor a
\* P2PKH form, is_valid answers true exactly when the bech32 decoder succeeds
\* for one of the prefixes 'ric', 'tric', 'rric', whatever the candidate's
\* length, 67 included.
C3_DelegatesToBech32 ==
    (verdict # <<>> /\ ~IsPrivkeyForm(cand) /\ ~IsP2SHForm(cand) /\ ~IsP2PKHForm(cand))
        => (verdict[1] <=> is_valid_bech32(cand))

\* C11: is_valid accepts a string as a script only on the full pattern: length
\* 46 with 'a914', 40 hexadecimal characters and '87', or length 50 with
\* '76a914', 40 hexadecimal characters and '88ac'; a string with the right
\* length, prefix and suffix and a non-hex character in the middle, which no
\* bech32 decoding accepts either, is not accepted.
C11_FullScriptPattern ==
    (verdict # <<>> /\ verdict[1] /\ ~is_valid_bech32(cand)
       /\ (IsP2SHForm(cand) \/ IsP2PKHForm(cand)))
        => IF IsP2SHForm(cand)
           THEN \A i \in 5..44 : HexVal(cand[i]) >= 0
           ELSE \A i \in 7..46 : HexVal(cand[i]) >= 0

\* the cap on consecutive dropped candidates the retry claim is stated for
RetryCap == 3
\* C12: reject-and-retry in gen_invalid_vectors is bounded: between two yields
\* the loop drops at most RetryCap candidates in a row, and on reaching the cap
\* it signals a hard failure instead of going on.
C12_BoundedRetry ==
    \A s \in Streams :
        uiter[s] = "invalid" =>
            /\ dropped[s] <= RetryCap
            /\ dropped[s] = RetryCap => pc[s] \notin {"run", "done"}

\* C13: padding fault: with the invalid_bech32 flag set and the empty-data
\* branch not taken, for every program size (every residue modulo 5) and every
\* drawn program, regrouping the symbols after the version symbol from 5 to 8
\* bits without padding fails.
C13_PaddingFault ==
    verdict # <<>> => ~convertbits(SliceFrom(verdict[1], 1), 5, 8, FALSE).ok
\* the symbols were built for program sizes of every residue modulo 5 that no
\* registered template with the flag has (the registered ones are 32 and 16)
C13_Witness ==
    /\ verdict # <<>>
    /\ cand.template.witprog_size % 5 \in {0, 3, 4}
    /\ cand.template.witprog_size > 0
    /\ Len(verdict[1]) > 1

\* the locals of the finished call say that no fault axis was drawn
NoFault(r) ==
    ~r.corrupt_prefix /\ ~r.randomize_payload_size /\ ~r.corrupt_suffix /\ r.branch = "none"
\* the locals say that prefix corruption was drawn and no other fault axis
OnlyPrefixFault(r) ==
    r.corrupt_prefix /\ ~r.randomize_payload_size /\ ~r.corrupt_suffix /\ r.branch = "none"
\* the length of the string the call returns for the template when it draws no
\* fault axis: lines 138, 143, 148 and 150
NoFaultLen(template) ==
    Len(template.prefix \o hex(template.output_prefix)) + 2 * template.payload_size
    + Len(hex(template.output_prefix))

\* C14: prefix corruption replaces the leading part of the string (literal
\* prefix and output-prefix opcodes) with random data of the same length: an
\* output with only prefix corruption drawn is as long as an output of the same
\* template with no corruption drawn.
C14_PrefixSameLength ==
    (verdict # <<>> /\ OnlyPrefixFault(verdict[1]))
        => Len(verdict[1].val) = NoFaultLen(cand.template)

\* C15: corruption starts from valid data: when the call draws no fault axis
\* the string is literal prefix, output-prefix hex, payload hex, output-suffix
\* hex, and the oracle accepts it.
C15_NoFaultIsValid ==
    (verdict # <<>> /\ NoFault(verdict[1]))
        => /\ verdict[1].val = cand.template.prefix \o hex(cand.template.output_prefix)
                                 \o hex(verdict[1].payload) \o hex(cand.template.output_suffix)
           /\ is_valid(verdict[1].val)

\* C16: line corruption has exactly two outcomes: the append branch makes the
\* string one character longer; the overwrite branch replaces one character at
\* a position inside the string and leaves the length unchanged, for every
\* position the draw can select.
C16_LineCorruption ==
    verdict # <<>> =>
        /\ verdict[1].branch = "append"
              => /\ Len(verdict[1].val) = Len(verdict[1].before_line) + 1
                 /\ IsPrefixOf(verdict[1].before_line, verdict[1].val)
        /\ verdict[1].branch = "overwrite"
              => /\ Len(verdict[1].val) = Len(verdict[1].before_line)
                 /\ verdict[1].n \in 0..(Len(verdict[1].before_line) - 1)
                 /\ \A i \in 1..Len(verdict[1].val) :
                       i # verdict[1].n + 1 => verdict[1].val[i] = verdict[1].before_line[i]

\* a negative bech32 template carries a defect: a foreign human-readable
\* part, a witness version above 16, a program size outside 2..40, a
\* version-0 program size other than 20 or 32, an encoding other than the
\* one its version requires, or a fault flag
HasDefect(t) ==
    \/ t.hrp \notin {HrpRic, HrpTric, HrpRric}
    \/ t.witver > 16
    \/ t.witprog_size < 2
    \/ t.witprog_size > 40
    \/ (t.witver = 0 /\ t.witprog_size \notin {20, 32})
    \/ (t.witver # 0 /\ t.encoding # "BECH32M")
    \/ t.invalid_bech32
    \/ t.invalid_checksum
    \/ t.invalid_char
\* stream s is about to run gen_invalid_bech32_vector, and the call draws
\* neither no_data nor to_upper
PlainNgRound(s) ==
    /\ pc[s] = "run"
    /\ uiter[s] = "invalid"
    /\ Len(data[s]) < count[s]
    /\ pos[s] >= Len(templates)
    /\ \E no_data \in {randbool(rng[owner[s]], 1)} :
           /\ ~no_data.v
           /\ ~randbool(no_data.g, 1).v
\* C17: every round of gen_invalid_vectors that runs a negative bech32
\* template without the empty-data branch and without the case swap runs a
\* template that carries a defect, and its string is rejected by the oracle
C17_NegativeTemplatesDefective ==
    [][\A s \in Streams :
          (PlainNgRound(s) /\ pos'[s] # pos[s]) =>
              /\ HasDefect(InvalidPairs[pos[s] + 1].template)
              /\ ~is_valid(InvalidVector(rng[owner[s]], InvalidPairs[pos[s] + 1]).val)]_vars

\* the opcode that pushes witness version v
VersionOpcode(v) == IF v = 0 THEN OP_0 ELSE OP_1 + (v - 1)

\* C4: bech32 round trip: decoding the string generated from a bech32 template
\* with the template's human-readable part gives the template's witness version
\* and the drawn program, and the yielded payload hex is the hex of the output
\* prefix (version opcode, program length) followed by the drawn program.
C4_Bech32RoundTrip ==
    [][\A s \in Streams :
          (/\ uiter[s] = "valid"
           /\ pos[s] >= Len(templates)
           /\ Len(data'[s]) = Len(data[s]) + 1)
          => LET t == bech32_templates[pos[s] - Len(templates) + 1]
                 drawn == rand_bytes(rng[owner[s]], t.witprog_size).v
                 v == Last(data'[s])
             IN  /\ decode_segwit_address(t.hrp, v[1])
                      = [ok |-> TRUE, witver |-> t.witver, witprog |-> drawn]
                 /\ v[2] = hex(t.output_prefix \o drawn)
                 /\ t.output_prefix = <<VersionOpcode(t.witver), Len(drawn)>>]_vars
\* a valid stream that has yielded a vector of every bech32 template
C4_Witness ==
    \E s \in Streams : uiter[s] = "valid" /\ Len(data[s]) >= Len(ValidPairs) /\ pos[s] = 0

\* C5: legacy round trip: the string generated from a legacy template is the
\* template's literal prefix followed by the yielded payload hex, and the
\* payload hex without the hex of the output prefix and of the output suffix
\* decodes to exactly the payload_size bytes drawn.
C5_LegacyRoundTrip ==
    [][\A s \in Streams :
          (/\ uiter[s] = "valid"
           /\ pos[s] < Len(templates)
           /\ Len(data'[s]) = Len(data[s]) + 1)
          => LET t == templates[pos[s] + 1]
                 drawn == rand_bytes(rng[owner[s]], t.payload_size).v
                 v == Last(data'[s])
                 hp == hex(t.output_prefix)
                 hs == hex(t.output_suffix)
             IN  /\ v[1] = t.prefix \o v[2]
                 /\ Len(v[2]) >= Len(hp) + Len(hs)
                 /\ Slice(v[2], 0, Len(hp)) = hp
                 /\ SliceFrom(v[2], Len(v[2]) - Len(hs)) = hs
                 /\ IsHexStr(Slice(v[2], Len(hp), Len(v[2]) - Len(hs)))
                 /\ fromhex(Slice(v[2], Len(hp), Len(v[2]) - Len(hs))) = drawn
                 /\ Len(drawn) = t.payload_size]_vars
\* a valid stream that has yielded a vector of every legacy template
C5_Witness ==
    \E s \in Streams : uiter[s] = "valid" /\ pos[s] = Len(templates) /\ Len(data[s]) >= Len(templates)

RECURSIVE AloneFrom(_, _, _, _, _)
\* the first k tuples a stream of the given kind yields from the generator state
\* g and the position p when nothing else draws from the random source
AloneFrom(kind, g, p, acc, k) ==
    IF Len(acc) >= k THEN acc
    ELSE IF kind = "valid"
    THEN LET pair == ValidPairs[p + 1]
             r == ValidVector(g, pair)
         IN  AloneFrom(kind, r.g, (p + 1) % Len(ValidPairs),
                       Append(acc, <<r.rv, hex(r.payload), Metadata(pair.template.metadata)>>), k)
    ELSE IF p < 0
    THEN AloneFrom(kind, g, p + 1, Append(acc, EdgeCases[p + Len(EdgeCases) + 1]), k)
    ELSE LET r == InvalidVector(g, InvalidPairs[p + 1])
         IN  AloneFrom(kind, r.g, (p + 1) % Len(InvalidPairs),
                       IF ~is_valid(r.val) THEN Append(acc, <<r.val>>) ELSE acc, k)
\* the first k tuples of a stream of the given kind consumed alone after
\* random.seed(sd)
Alone(kind, sd, k) == AloneFrom(kind, RngSeed(sd), StartPos(kind), <<>>, k)

\* C7: streams do not interfere: each of two streams consumed in any
\* interleaving yields the sequence it yields when consumed alone.
C7_NoInterference ==
    \A s \in Streams : data[s] = Alone(uiter[s], seed, Len(data[s]))

\* C8: the first element gen_invalid_vectors yields is the empty string and the
\* second is "x", each as a one-element tuple, and both are yielded before any
\* round of the corruption loop runs or any random value is drawn.
C8_EdgeCasesFirst ==
    \A s \in Streams :
        uiter[s] = "invalid" =>
            /\ Len(data[s]) >= 1 => data[s][1] = <<StrEmpty>>
            /\ Len(data[s]) >= 2 => data[s][2] = <<StrX>>
            /\ pos[s] < 0 => (Len(data[s]) = pos[s] + 2 /\ rng[owner[s]] = RngSeed(seed))
            /\ rng[owner[s]] # RngSeed(seed) => Len(data[s]) >= 2
\* an invalid stream that has yielded both edge cases and then run the loop
C8_Witness ==
    \E s \in Streams :
        uiter[s] = "invalid" /\ Len(data[s]) >= 3 /\ rng[owner[s]] # RngSeed(seed)

\* the vector v has the shape of the pair of ValidPairs: its metadata, the
\* length of its payload and its output prefix, and the literal prefix or the
\* human-readable part and witness version of its string
HasShapeOf(v, pair) ==
    LET t == pair.template
    IN  /\ v[3] = Metadata(t.metadata)
        /\ IsPrefixOf(hex(t.output_prefix), v[2])
        /\ IF pair.gen = "legacy"
           THEN /\ Len(v[2]) = 2 * (Len(t.output_prefix) + t.payload_size + Len(t.output_suffix))
                /\ IsPrefixOf(t.prefix, v[1])
                /\ Len(v[1]) = Len(t.prefix) + Len(v[2])
           ELSE /\ Len(v[2]) = 2 * (Len(t.output_prefix) + t.witprog_size)
                /\ IsPrefixOf(t.hrp \o <<49, CHARSET[t.witver + 1]>>, v[1])

\* entry j (from 1) of the legacy templates in registration order followed by
\* the bech32 templates in registration order
Registered(j) ==
    IF j <= Len(templates)
    THEN [gen |-> "legacy", template |-> templates[j]]
    ELSE [gen |-> "bech32", template |-> bech32_templates[j - Len(templates)]]

\* C9: gen_valid_vectors is a fixed round-robin: the k-th vector (from 0) comes
\* from entry k mod 15 of the 3 legacy templates followed by the 12 bech32
\* templates, no template skipped or repeated within a cycle.
C9_RoundRobin ==
    /\ Len(templates) = 3
    /\ Len(bech32_templates) = 12
    /\ \A s \in Streams :
          uiter[s] = "valid" =>
              \A k \in 1..Len(data[s]) : \A j \in 1..15 :
                  HasShapeOf(data[s][k], Registered(j)) <=> (j = ((k - 1) % 15) + 1)
\* a valid stream that has started its second cycle
C9_Witness ==
    \E s \in Streams : uiter[s] = "valid" /\ Len(data[s]) > Len(ValidPairs)

\* the array written has n tuples of the width of the mode
WroteTuples(s, mode, n) ==
    /\ pc[s] = "done"
    /\ stdout[s].written
    /\ Len(stdout[s].array) = n
    /\ \A k \in 1..n : Len(stdout[s].array[k]) = IF mode = "valid" THEN 3 ELSE 1

\* C10: the command-line run terminates and writes an array of exactly n
\* tuples for count n, 3-element tuples in valid mode (the default) and
\* 1-element tuples in invalid mode, and an empty array when count is absent.
C10_Terminates ==
    <>(\A s \in Streams :
          WroteTuples(s, IF Len(argv) >= 1 THEN argv[1] ELSE "valid",
                         IF Len(argv) >= 2 THEN argv[2] ELSE 0))
\* a finished run in invalid mode that wrote generated strings after dropping a
\* candidate
C10_Witness ==
    \E s \in Streams :
        /\ uiter[s] = "invalid"
        /\ pc[s] = "done"
        /\ Len(stdout[s].array) = MaxCount
        /\ Len(data[s]) - Len(EdgeCases) < pos[s]

====
